---- MODULE Spec2Model ----
(***************************************************************************)
(* Model of src/inference.py: the stereo narrowing / widening transforms,  *)
(* run_single_file and run_folder.  Samples are exact rationals, arrays    *)
(* carry their numpy shape, file names are sequences of characters.        *)
(***************************************************************************)
EXTENDS Integers, Sequences, FiniteSets, TLC

VARIABLES
    pc,               \* position in the function being run
    args,             \* argparse namespace
    config,           \* config.training
    disk,             \* path -> [present, readable, audio]: the files the run reads
    all_mixtures_path,\* run_folder: the glob result
    path_i,           \* run_folder: index of the current path
    mix,              \* local: the waveform
    sr,               \* local: sample rate returned by librosa.load
    is_stereo,        \* local of run_single_file
    original_length,  \* local of run_single_file
    res,              \* local: the engine's result, instrument -> array
    instr_i,          \* index of the current instrument in the write loop
    written,          \* sequence of sf.write calls
    printed,          \* sequence of print calls
    calls,            \* sequence of calls of os.path.isfile, time.sleep, librosa.load, ...
    fs_changes        \* how often the file system changed under the run

vars == <<pc, args, config, disk, all_mixtures_path, path_i, mix, sr, is_stereo,
          original_length, res, instr_i, written, printed, calls, fs_changes>>

----------------------------------------------------------------------------
(* Bounds *)

\* longest waveform read from a file, in samples
MaxLen == 2
\* librosa.load(..., sr=44100): the rate, scaled down to keep the padding small
SampleRate == 1
\* how many times the file system may change under a running run_single_file
MaxFsChanges == 1
\* most files in the folder listing
MaxFiles == 2

\* line 63: silence_duration = 5
silence_duration == 5

----------------------------------------------------------------------------
(* Exact arithmetic standing for Python / numpy floating point *)

Abs(x) == IF x < 0 THEN -x ELSE x

Gcd[a \in Nat, b \in Nat] == IF b = 0 THEN a ELSE Gcd[b, a % b]

\* the rational n/d (d # 0) in lowest terms with a positive denominator
Rat(n, d) ==
    LET F[g \in Nat, s \in Int] == <<(s * n) \div g, (s * d) \div g>>
    IN  F[Gcd[Abs(n), Abs(d)], IF d < 0 THEN -1 ELSE 1]

RInt(i) == <<i, 1>>
RNeg(x) == <<-x[1], x[2]>>

\* sums over the least common denominator and products after cross-cancelling, so
\* that no intermediate number outgrows the result
RatAdd[x \in Int \X Int, y \in Int \X Int] ==
    LET F[g \in Nat] == Rat(x[1] * (y[2] \div g) + y[1] * (x[2] \div g), (x[2] \div g) * y[2])
    IN  F[Gcd[x[2], y[2]]]
RatMul[x \in Int \X Int, y \in Int \X Int] ==
    LET F[a \in Int \X Int, b \in Int \X Int] == Rat(a[1] * b[1], a[2] * b[2])
    IN  F[Rat(x[1], y[2]), Rat(y[1], x[2])]
RAdd(x, y) == RatAdd[x, y]
RSub(x, y) == RatAdd[x, RNeg(y)]
RMul(x, y) == RatMul[x, y]
\* Python's float / float raises ZeroDivisionError on a zero divisor
DivRaises(x, y) == y[1] = 0
RDiv(x, y) == Rat(x[1] * y[2], x[2] * y[1])

\* elementwise operations on one channel (a 1-D numpy array)
VecScale(x, k) == [i \in 1..Len(x) |-> RMul(x[i], k)]
VecAdd(x, y) == [i \in 1..Len(x) |-> RAdd(x[i], y[i])]
VecSub(x, y) == [i \in 1..Len(x) |-> RSub(x[i], y[i])]

----------------------------------------------------------------------------
(* numpy arrays: [shape |-> <<n>>, data |-> <<x1..xn>>] or                 *)
(*               [shape |-> <<r, c>>, data |-> <<row1..rowr>>]             *)

Arr1(xs) == [shape |-> <<Len(xs)>>, data |-> xs]
Arr2(r, c, rows) == [shape |-> <<r, c>>, data |-> rows]

\* ndarray.T: a 1-D array is its own transpose
Transpose(a) ==
    IF Len(a.shape) = 1 THEN a
    ELSE Arr2(a.shape[2], a.shape[1],
              [i \in 1..a.shape[2] |-> [j \in 1..a.shape[1] |-> a.data[j][i]]])

\* np.zeros((r, c))
Zeros(r, c) == Arr2(r, c, [i \in 1..r |-> [j \in 1..c |-> RInt(0)]])

\* np.vstack([a, b]) of two 2-D arrays with the same number of columns
VStack(a, b) == Arr2(a.shape[1] + b.shape[1], a.shape[2], a.data \o b.data)

\* np.stack([a, a], axis=-1) of a 1-D array
StackLast(a) == Arr2(a.shape[1], 2, [i \in 1..a.shape[1] |-> <<a.data[i], a.data[i]>>])

\* a[:, :n] of a 2-D array
SliceCols(a, n) ==
    LET m == IF n < a.shape[2] THEN n ELSE a.shape[2]
    IN  Arr2(a.shape[1], m, [i \in 1..a.shape[1] |-> SubSeq(a.data[i], 1, m)])

\* a - b of two 2-D arrays of the same shape
ArrSub(a, b) == Arr2(a.shape[1], a.shape[2],
                     [i \in 1..a.shape[1] |-> VecSub(a.data[i], b.data[i])])

\* a * k for a rational k
ArrScale(a, k) == Arr2(a.shape[1], a.shape[2],
                       [i \in 1..a.shape[1] |-> VecScale(a.data[i], k)])

\* wave[i] as a vector: a row of a 2-D array, a scalar of a 1-D one
Chan(a, i) == IF Len(a.shape) = 1 THEN <<a.data[i]>> ELSE a.data[i]
\* wave[i] = v
SetChan(a, i, v) ==
    IF Len(a.shape) = 1 THEN [a EXCEPT !.data[i] = v[1]] ELSE [a EXCEPT !.data[i] = v]

----------------------------------------------------------------------------
(* stereo_widering and stereo_narrowing *)

\* a snapshot that aliases the array: it reads channel 0 after the overwrite
AliasedWave0(before, after) == Chan(after, 1)

\* lines 25 and 35: wave0 = copy.copy(wave[0]), read after wave[0] was overwritten
Wave0(before, after) == Chan(before, 1)

\* line 22: n = (100 - value) / 100
WidenN(value) == RDiv(RInt(100 - value), RInt(100))

\* lines 26-27: k1 / n and k2 / n raise ZeroDivisionError when n is 0
stereo_widering_raises(value) == DivRaises(RInt(1), WidenN(value))

stereo_widering(wave, value) ==
    LET n  == WidenN(value)
        k1 == RAdd(Rat(1, 2), RDiv(n, RInt(2)))
        k2 == RSub(Rat(1, 2), RDiv(n, RInt(2)))
        w1 == SetChan(wave, 1, VecSub(VecScale(Chan(wave, 1), RDiv(k1, n)),
                                      VecScale(Chan(wave, 2), RDiv(k2, n))))
        w2 == SetChan(w1, 2, VecSub(VecScale(Chan(w1, 2), RDiv(k1, n)),
                                    VecScale(Wave0(wave, w1), RDiv(k2, n))))
    IN  w2

stereo_narrowing(wave, value) ==
    LET n  == RInt(100 - value)
        k1 == RDiv(RAdd(RInt(50), RDiv(n, RInt(2))), RInt(100))
        k2 == RDiv(RSub(RInt(50), RDiv(n, RInt(2))), RInt(100))
        w1 == SetChan(wave, 1, VecAdd(VecScale(Chan(wave, 1), k1),
                                      VecScale(Chan(wave, 2), k2)))
        w2 == SetChan(w1, 2, VecAdd(VecScale(Chan(w1, 2), k1),
                                    VecScale(Wave0(wave, w1), k2)))
    IN  w2

----------------------------------------------------------------------------
(* Strings, as sequences of characters *)

Vocals == <<"v", "o", "c", "a", "l", "s">>
Other == <<"o", "t", "h", "e", "r">>
Instrumental == <<"i", "n", "s", "t", "r", "u", "m", "e", "n", "t", "a", "l">>
\* config.training.target_instrument is None
None == <<>>

\* os.path.basename(p): what follows the last "/"
basename(p) ==
    LET S == {i \in 1..Len(p) : p[i] = "/"}
        last == IF S = {} THEN 0 ELSE CHOOSE i \in S : \A j \in S : j <= i
    IN  SubSeq(p, last + 1, Len(p))

\* s[:-4]
DropLast4(s) == IF Len(s) <= 4 THEN <<>> ELSE SubSeq(s, 1, Len(s) - 4)

\* "{}/{}_{}.wav".format(store_dir, os.path.basename(path)[:-4], instr)
OutPath(store_dir, path, instr) ==
    store_dir \o <<"/">> \o DropLast4(basename(path)) \o <<"_">> \o instr
        \o <<".", "w", "a", "v">>

\* x in list
InList(x, list) == \E i \in 1..Len(list) : list[i] = x

\* lines 81-83 and 99-101: the instruments written
Instruments(cfg) ==
    IF cfg.target_instrument # None THEN <<cfg.target_instrument>> ELSE cfg.instruments

----------------------------------------------------------------------------
(* The collaborators: librosa.load, the separation engine, sf.write *)

\* librosa.load(path, sr=44100, mono=False) raises for a missing or undecodable file
LoadRaises(d, path) == ~d[path].present \/ ~d[path].readable

\* and returns a 1-D array for a mono file, a (channels, samples) array otherwise
Load(d, path) == d[path].audio

\* the engines the runs are tried with
EngineModels == {1, 2}

\* demix_track / demix_track_demucs: one stem per active instrument, each of the
\* mixture's shape; engine k gives the i-th stem the gain 1 / (k + i - 1)
Demix(cfg, mixture, k) ==
    LET active == Instruments(cfg)
    IN  [s \in {active[i] : i \in 1..Len(active)} |->
            ArrScale(mixture, Rat(1, k - 1 + CHOOSE i \in 1..Len(active) : active[i] = s))]

\* lines 76-79 and 126-129: the engine chosen by args.model_type
EngineName(a) == IF a.model_type = "htdemucs" THEN "demix_track_demucs" ELSE "demix_track"

\* lines 72-73 and 122-123: convert mono to stereo if needed
MonoToStereo(m) == IF Len(m.shape) = 1 THEN StackLast(m) ELSE m

Call(fn, arg) == [fn |-> fn, arg |-> arg]
Msg(text, arg) == [text |-> text, arg |-> arg]
WriteRec(path, data, rate) == [path |-> path, data |-> data, sr |-> rate]

EmptyArr == Arr1(<<>>)
----------------------------------------------------------------------------
(* Inputs *)

Samples == {RInt(-1), Rat(1, 2)}

\* every (c, l) array over Samples
Waves(c, l) == {Arr2(c, l, rows) : rows \in [1..c -> [1..l -> Samples]]}

MonoWaves == UNION {{Arr1(xs) : xs \in [1..l -> Samples]} : l \in 1..MaxLen}
StereoWaves == UNION {Waves(2, l) : l \in 1..MaxLen}
TriWaves == Waves(3, 1)

File(present, readable, audio) ==
    [present |-> present, readable |-> readable, audio |-> audio]

\* what a path may hold: an undecodable file, or a mono, stereo or 3-channel one;
\* a file that is not there yet holds one sample per channel once it appears
Files ==
    {File(p, FALSE, EmptyArr) : p \in BOOLEAN}
        \cup {File(TRUE, TRUE, a) : a \in MonoWaves \cup StereoWaves \cup TriWaves}
        \cup {File(FALSE, TRUE, a) : a \in {Arr1(xs) : xs \in [1..1 -> Samples]} \cup Waves(2, 1)}

InputFiles ==
    { <<"d", "/", "s", ".", "m", "p", "3">>,
      <<"s", ".", "f", "l", "a", "c">>,
      <<"s", ".", "a", "u">> }

StoreDir == <<"o">>

NarrowValues == {0, 30, 100}
ModelTypes == {"mdx23c", "htdemucs"}

Configs ==
    { [instruments |-> <<Vocals, Other>>, target_instrument |-> None],
      [instruments |-> <<Vocals, Other>>, target_instrument |-> Other],
      [instruments |-> <<Vocals, Other>>, target_instrument |-> Vocals] }

\* run_single_file treats every target alike: one is enough
SingleConfigs == {c \in Configs : c.target_instrument \in {None, Other}}

Args(file, folder, type, narrowing, extract) ==
    [input_file |-> file, input_folder |-> folder, store_dir |-> StoreDir,
     model_type |-> type, stereo_narrowing |-> narrowing, extract_instrumental |-> extract]

\* the locals before they are assigned, and the empty logs
LocalsInit ==
    /\ all_mixtures_path = <<>>
    /\ path_i = 0
    /\ mix = EmptyArr
    /\ sr = 0
    /\ is_stereo = FALSE
    /\ original_length = 0
    /\ res = <<>>
    /\ instr_i = 0
    /\ written = <<>>
    /\ printed = <<>>
    /\ calls = <<>>
    /\ fs_changes = 0

----------------------------------------------------------------------------
(* run_single_file, lines 41-90 *)

SingleInit ==
    /\ pc = "Idle"
    /\ \E f \in InputFiles, t \in ModelTypes, v \in NarrowValues :
          /\ args = Args(f, <<>>, t, v, FALSE)
          /\ \E file \in Files : disk = [p \in {f} |-> file]
    /\ config \in SingleConfigs
    /\ LocalsInit

\* lines 42-43
Single_Start ==
    /\ pc = "Idle"
    /\ pc' = "Validating"
    /\ calls' = Append(calls, Call("model.eval", <<>>))
    /\ UNCHANGED <<args, config, disk, all_mixtures_path, path_i, mix, sr, is_stereo,
                   original_length, res, instr_i, written, printed, fs_changes>>

\* line 45: the first os.path.isfile
Single_Check ==
    /\ pc = "Validating"
    /\ calls' = Append(calls, Call("os.path.isfile", disk[args.input_file].present))
    /\ pc' = IF disk[args.input_file].present THEN "Preparing" ELSE "ValidatingSleep"
    /\ UNCHANGED <<args, config, disk, all_mixtures_path, path_i, mix, sr, is_stereo,
                   original_length, res, instr_i, written, printed, fs_changes>>

\* line 46: time.sleep(1)
Single_Sleep ==
    /\ pc = "ValidatingSleep"
    /\ calls' = Append(calls, Call("time.sleep", <<>>))
    /\ pc' = "ValidatingRecheck"
    /\ UNCHANGED <<args, config, disk, all_mixtures_path, path_i, mix, sr, is_stereo,
                   original_length, res, instr_i, written, printed, fs_changes>>

\* a retry loop: an absent file sends the run back to the wait
RecheckLoops(present) == IF present THEN "Preparing" ELSE "ValidatingSleep"

\* lines 47-49: where the second check leads
AfterRecheck(present) == IF present THEN "Preparing" ELSE "Failed"

\* lines 47-49: the second os.path.isfile
Single_Recheck ==
    /\ pc = "ValidatingRecheck"
    /\ calls' = Append(calls, Call("os.path.isfile", disk[args.input_file].present))
    /\ pc' = AfterRecheck(disk[args.input_file].present)
    /\ printed' = IF pc' = "Failed" THEN Append(printed, Msg("Input file doesn't exist!", <<>>))
                                    ELSE printed
    /\ UNCHANGED <<args, config, disk, all_mixtures_path, path_i, mix, sr, is_stereo,
                   original_length, res, instr_i, written, fs_changes>>

\* another process creates or removes the input file while the run validates it
FsChange ==
    /\ pc \in {"Validating", "ValidatingSleep", "ValidatingRecheck", "Preparing"}
    /\ fs_changes < MaxFsChanges
    /\ fs_changes' = fs_changes + 1
    /\ disk' = [disk EXCEPT ![args.input_file].present = ~@]
    /\ UNCHANGED <<pc, args, config, all_mixtures_path, path_i, mix, sr, is_stereo,
                   original_length, res, instr_i, written, printed, calls>>

\* line 57: the input is narrowed
NarrowsInput(a, stereo) == a.stereo_narrowing # 0 /\ stereo

\* widening whenever the parameter is set, whatever the channel count
WidensAnyInput(a, stereo) == a.stereo_narrowing # 0

\* line 87: the stem is widened
WidensOutput(a, stereo) == a.stereo_narrowing # 0 /\ stereo

\* the silence put in front of the signal
PadSilenceBefore(m, rate) == VStack(Zeros(silence_duration * rate, m.shape[2]), m)

\* lines 62-65: five seconds of silence after the signal
PadSilence(m, rate) == VStack(m, Zeros(silence_duration * rate, m.shape[2]))

\* lines 54-69: the try block; any exception in it is printed and ends the run
Single_Prepare ==
    /\ pc = "Preparing"
    /\ IF LoadRaises(disk, args.input_file)
         THEN /\ calls' = Append(calls, Call("librosa.load", args.input_file))
              /\ printed' = printed \o <<Msg("Can read track", args.input_file),
                                             Msg("Error message", <<>>)>>
              /\ pc' = "Failed"
              /\ UNCHANGED <<mix, sr, is_stereo, original_length>>
         ELSE LET loaded == Load(disk, args.input_file)
                  stereo == loaded.shape[1] = 2
                  narrow == NarrowsInput(args, stereo)
                  m1     == IF narrow THEN stereo_narrowing(loaded, args.stereo_narrowing)
                                      ELSE loaded
                  m2     == Transpose(m1)
              IN  /\ calls' = calls \o <<Call("librosa.load", args.input_file)>>
                                    \o (IF narrow
                                          THEN <<Call("stereo_narrowing",
                                                      <<loaded, args.stereo_narrowing>>)>>
                                          ELSE <<>>)
                  /\ sr' = SampleRate
                  /\ is_stereo' = stereo
                  /\ original_length' = m2.shape[1]
                  /\ IF Len(m2.shape) < 2
                       \* line 64: mix.shape[1] of a 1-D array raises IndexError
                       THEN /\ mix' = m2
                            /\ printed' = printed \o <<Msg("Can read track", args.input_file),
                                             Msg("Error message", <<>>)>>
                            /\ pc' = "Failed"
                       ELSE /\ mix' = PadSilence(m2, SampleRate)
                            /\ printed' = printed
                            /\ pc' = "Separating"
    /\ UNCHANGED <<args, config, disk, all_mixtures_path, path_i, res, instr_i,
                   written, fs_changes>>

\* lines 71-83: mono to stereo, then the engine
Single_Separate ==
    /\ pc = "Separating"
    /\ \E m \in {MonoToStereo(mix)} :
          \E mixture \in {Transpose(m)} :
              /\ mix' = m
              /\ calls' = Append(calls, Call(EngineName(args), mixture))
              /\ \E k \in EngineModels : res' = Demix(config, mixture, k)
    /\ instr_i' = 1
    /\ pc' = IF Len(Instruments(config)) = 0 THEN "Done" ELSE "PostProcessing"
    /\ UNCHANGED <<args, config, disk, all_mixtures_path, path_i, sr, is_stereo,
                   original_length, written, printed, fs_changes>>

\* lines 86-88: truncate the stem, then widen it when the input was narrowed
Single_PostProcess ==
    /\ pc = "PostProcessing"
    /\ LET instr == Instruments(config)[instr_i]
           cut   == SliceCols(res[instr], original_length)
       IN  IF WidensOutput(args, is_stereo)
             THEN /\ calls' = Append(calls, Call("stereo_widering",
                                                 <<cut, args.stereo_narrowing>>))
                  /\ IF stereo_widering_raises(args.stereo_narrowing)
                       \* ZeroDivisionError, outside any try block
                       THEN /\ res' = [res EXCEPT ![instr] = cut]
                            /\ pc' = "Raised"
                       ELSE /\ res' = [res EXCEPT ![instr] =
                                          stereo_widering(cut, args.stereo_narrowing)]
                            /\ pc' = "Writing"
             ELSE /\ calls' = calls
                  /\ res' = [res EXCEPT ![instr] = cut]
                  /\ pc' = "Writing"
    /\ UNCHANGED <<args, config, disk, all_mixtures_path, path_i, mix, sr, is_stereo,
                   original_length, instr_i, written, printed, fs_changes>>

\* lines 88 and 90: sf.write, and the next instrument
Single_Write ==
    /\ pc = "Writing"
    /\ LET instr == Instruments(config)[instr_i]
       IN  written' = Append(written,
                             WriteRec(OutPath(args.store_dir, args.input_file, instr),
                                      Transpose(res[instr]), sr))
    /\ instr_i' = instr_i + 1
    /\ pc' = IF instr_i < Len(Instruments(config)) THEN "PostProcessing" ELSE "Done"
    /\ UNCHANGED <<args, config, disk, all_mixtures_path, path_i, mix, sr, is_stereo,
                   original_length, res, printed, calls, fs_changes>>

SingleNext ==
    \/ Single_Start
    \/ Single_Check
    \/ Single_Sleep
    \/ Single_Recheck
    \/ FsChange
    \/ Single_Prepare
    \/ Single_Separate
    \/ Single_PostProcess
    \/ Single_Write

SpecSingle == SingleInit /\ [][SingleNext]_vars
----------------------------------------------------------------------------
(* run_folder, lines 93-138 *)

InputFolder == <<"i">>

FolderNames ==
    { <<"a", ".", "m", "p", "3">>,
      <<"b", ".", "f", "l", "a", "c">>,
      <<"c", ".", "a", "u">> }

\* glob.glob(args.input_folder + '/*.*'): any listing of distinct files
Listings ==
    UNION {{l \in [1..n -> {InputFolder \o <<"/">> \o f : f \in FolderNames}] :
               \A i, j \in 1..n : i # j => l[i] # l[j]} : n \in 0..MaxFiles}

FolderFiles ==
    {File(TRUE, FALSE, EmptyArr),
     File(TRUE, TRUE, Arr1(<<Rat(1, 2)>>)),
     File(TRUE, TRUE, Arr2(2, 1, <<<<RInt(1)>>, <<RInt(-1)>>>>)),
     File(TRUE, TRUE, Arr2(2, 2, <<<<RInt(1), Rat(1, 2)>>, <<RInt(0), RInt(-1)>>>>))}

FolderInit ==
    /\ pc = "FolderIdle"
    /\ \E t \in ModelTypes, x \in BOOLEAN : args = Args(<<>>, InputFolder, t, 0, x)
    /\ config \in Configs
    /\ \E l \in Listings :
          /\ disk \in [{l[i] : i \in 1..Len(l)} -> FolderFiles]
          /\ all_mixtures_path = l
    /\ path_i = 0
    /\ mix = EmptyArr
    /\ sr = 0
    /\ is_stereo = FALSE
    /\ original_length = 0
    /\ res = <<>>
    /\ instr_i = 0
    /\ written = <<>>
    /\ printed = <<>>
    /\ calls = <<>>
    /\ fs_changes = 0

\* lines 94-107
Folder_Start ==
    /\ pc = "FolderIdle"
    /\ calls' = Append(calls, Call("model.eval", <<>>))
    /\ printed' = Append(printed, Msg("Total files found", Len(all_mixtures_path)))
    /\ path_i' = 1
    /\ pc' = "FolderLoad"
    /\ UNCHANGED <<args, config, disk, all_mixtures_path, mix, sr, is_stereo,
                   original_length, res, instr_i, written, fs_changes>>

\* a handler that leaves the loop: break
BreakAfterFailure(i, n) == n + 1

\* line 119: continue
ContinueAfterFailure(i, n) == i + 1

\* lines 109-119: the next path, its load, and the handler of a failed load
Folder_Load ==
    /\ pc = "FolderLoad"
    /\ path_i <= Len(all_mixtures_path)
    /\ LET path == all_mixtures_path[path_i]
       IN  /\ calls' = Append(calls, Call("librosa.load", path))
           /\ IF LoadRaises(disk, path)
                THEN /\ printed' = printed \o <<Msg("Can read track", path),
                                                Msg("Error message", <<>>)>>
                     /\ path_i' = ContinueAfterFailure(path_i, Len(all_mixtures_path))
                     /\ pc' = "FolderLoad"
                     /\ UNCHANGED <<mix, sr>>
                ELSE /\ mix' = Transpose(Load(disk, path))
                     /\ sr' = SampleRate
                     /\ pc' = "FolderSeparate"
                     /\ UNCHANGED <<printed, path_i>>
    /\ UNCHANGED <<args, config, disk, all_mixtures_path, is_stereo, original_length,
                   res, instr_i, written, fs_changes>>

\* instrumental whenever 'vocals' is active, requested or not
InstrumentalAlways(cfg, a) == InList(Vocals, Instruments(cfg))

\* line 133: 'vocals' in instruments and args.extract_instrumental
WritesInstrumental(cfg, a) == InList(Vocals, Instruments(cfg)) /\ a.extract_instrumental

\* lines 121-129: mono to stereo, then the engine
Folder_Separate ==
    /\ pc = "FolderSeparate"
    /\ \E m \in {MonoToStereo(mix)} :
          \E mixture \in {Transpose(m)} :
              /\ mix' = m
              /\ calls' = Append(calls, Call(EngineName(args), mixture))
              /\ \E k \in EngineModels : res' = Demix(config, mixture, k)
    /\ instr_i' = 1
    /\ pc' = "FolderWrite"
    /\ UNCHANGED <<args, config, disk, all_mixtures_path, path_i, sr, is_stereo,
                   original_length, written, printed, fs_changes>>

\* lines 130-131: one stem file
Folder_Write ==
    /\ pc = "FolderWrite"
    /\ LET instr == Instruments(config)[instr_i]
           path  == all_mixtures_path[path_i]
       IN  written' = Append(written, WriteRec(OutPath(args.store_dir, path, instr),
                                               Transpose(res[instr]), sr))
    /\ IF instr_i < Len(Instruments(config))
         THEN /\ instr_i' = instr_i + 1
              /\ pc' = "FolderWrite"
              /\ path_i' = path_i
         ELSE /\ instr_i' = instr_i + 1
              /\ IF WritesInstrumental(config, args)
                   THEN pc' = "FolderInstrumental" /\ path_i' = path_i
                   ELSE pc' = "FolderLoad" /\ path_i' = path_i + 1
    /\ UNCHANGED <<args, config, disk, all_mixtures_path, mix, sr, is_stereo,
                   original_length, res, printed, calls, fs_changes>>

\* lines 133-135: the instrumental file
Folder_Instrumental ==
    /\ pc = "FolderInstrumental"
    /\ LET path == all_mixtures_path[path_i]
       IN  written' = Append(written,
                             WriteRec(OutPath(args.store_dir, path, Instrumental),
                                      ArrSub(mix, Transpose(res[Vocals])), sr))
    /\ path_i' = path_i + 1
    /\ pc' = "FolderLoad"
    /\ UNCHANGED <<args, config, disk, all_mixtures_path, mix, sr, is_stereo,
                   original_length, res, instr_i, printed, calls, fs_changes>>

\* lines 137-138: after the loop
Folder_Finish ==
    /\ pc = "FolderLoad"
    /\ path_i > Len(all_mixtures_path)
    /\ calls' = Append(calls, Call("time.sleep", <<>>))
    /\ printed' = Append(printed, Msg("Elapsed time", <<>>))
    /\ pc' = "FolderDone"
    /\ UNCHANGED <<args, config, disk, all_mixtures_path, path_i, mix, sr, is_stereo,
                   original_length, res, instr_i, written, fs_changes>>

FolderNext ==
    \/ Folder_Start
    \/ Folder_Load
    \/ Folder_Separate
    \/ Folder_Write
    \/ Folder_Instrumental
    \/ Folder_Finish

SpecFolder == FolderInit /\ [][FolderNext]_vars

\* run_folder is sequential code: it takes its next step whenever it has one
SpecFolderLive == SpecFolder /\ WF_vars(FolderNext)
----------------------------------------------------------------------------
(* stereo_narrowing followed by stereo_widering on one waveform *)

StereoSamples == {RInt(-1), RInt(0), Rat(1, 2)}
StereoInputs ==
    UNION {{Arr2(2, l, rows) : rows \in [1..2 -> [1..l -> StereoSamples]]} : l \in 1..MaxLen}
StereoValues == {-100, -30, 0, 1, 30, 50, 99, 100, 130}
StereoFile == <<"w">>

StereoInit ==
    /\ pc = "wave"
    /\ \E v \in StereoValues : args = Args(StereoFile, <<>>, "mdx23c", v, FALSE)
    /\ config \in {[instruments |-> <<Vocals>>, target_instrument |-> None]}
    /\ \E w \in StereoInputs : disk = [p \in {StereoFile} |-> File(TRUE, TRUE, w)]
    /\ LocalsInit

\* mix, sr = librosa.load(...)
Stereo_Load ==
    /\ pc = "wave"
    /\ mix' = Load(disk, StereoFile)
    /\ pc' = "loaded"
    /\ UNCHANGED <<args, config, disk, all_mixtures_path, path_i, sr, is_stereo,
                   original_length, res, instr_i, written, printed, calls, fs_changes>>

\* mix = stereo_narrowing(mix, value)
Stereo_Narrow ==
    /\ pc = "loaded"
    /\ mix' = stereo_narrowing(mix, args.stereo_narrowing)
    /\ pc' = "narrowed"
    /\ UNCHANGED <<args, config, disk, all_mixtures_path, path_i, sr, is_stereo,
                   original_length, res, instr_i, written, printed, calls, fs_changes>>

\* stereo_widering(mix, value)
Stereo_Widen ==
    /\ pc = "narrowed"
    /\ IF stereo_widering_raises(args.stereo_narrowing)
         THEN mix' = mix /\ pc' = "raised"
         ELSE mix' = stereo_widering(mix, args.stereo_narrowing) /\ pc' = "widened"
    /\ UNCHANGED <<args, config, disk, all_mixtures_path, path_i, sr, is_stereo,
                   original_length, res, instr_i, written, printed, calls, fs_changes>>

StereoNext ==
    \/ Stereo_Load
    \/ Stereo_Narrow
    \/ Stereo_Widen

SpecStereo == StereoInit /\ [][StereoNext]_vars

----------------------------------------------------------------------------
(* Views of the logs *)

CallsOf(fns) == SelectSeq(calls, LAMBDA c : c.fn \in fns)
EngineCalls == CallsOf({"demix_track", "demix_track_demucs"})
LoadCalls == CallsOf({"librosa.load"})
IsfileCalls == CallsOf({"os.path.isfile"})
SleepCalls == CallsOf({"time.sleep"})
NarrowCalls == CallsOf({"stereo_narrowing"})
WidenCalls == CallsOf({"stereo_widering"})
Printed(text) == SelectSeq(printed, LAMBDA m : m.text = text)

\* the waveform in the input file of run_single_file
InputWave == Load(disk, args.input_file)

----------------------------------------------------------------------------
(* C5 *)

\* C5: for every 2-channel waveform w and every width v other than 100,
\* stereo_widering(stereo_narrowing(w, v), v) is w sample for sample, and the
\* narrowed waveform is, in both channels, the mix of the original left and right:
\* 200 * left' = (200 - v) * left + v * right, 200 * right' = (200 - v) * right + v * left.
C5_RoundTrip ==
    LET w == Load(disk, StereoFile)
        v == args.stereo_narrowing
        FromOriginals(a, b, out) ==
            \A i \in 1..w.shape[2] :
                RMul(RInt(200), out[i]) = RAdd(RMul(RInt(200 - v), a[i]), RMul(RInt(v), b[i]))
    IN  /\ pc = "narrowed" =>
              /\ mix.shape = w.shape
              /\ FromOriginals(w.data[1], w.data[2], mix.data[1])
              /\ FromOriginals(w.data[2], w.data[1], mix.data[2])
        /\ (pc = "widened" /\ v # 100) => mix = w
        /\ pc = "raised" => v = 100

\* a waveform with different channels came back from a real narrowing
C5_Witness ==
    /\ pc = "widened"
    /\ args.stereo_narrowing = 30
    /\ mix = Load(disk, StereoFile)
    /\ mix.shape[2] = 2
    /\ mix.data[1] # mix.data[2]
----------------------------------------------------------------------------
(* run_single_file: C2, C3, C4, C6, C7, C9, C10 *)

\* C2: every run of run_single_file ends in Done or in Failed, Failed is entered
\* only from Validating (the file is missing at both checks) or from Preparing (the
\* load failed), and no exception leaves run_single_file.
C2_Claim ==
    /\ pc # "Raised"
    /\ pc \in {"Idle", "Validating", "ValidatingSleep", "ValidatingRecheck", "Preparing",
               "Separating", "PostProcessing", "Writing", "Done", "Failed"}
    /\ pc = "Failed" =>
          /\ Len(EngineCalls) = 0
          /\ \/ (Len(Printed("Input file doesn't exist!")) = 1 /\ Len(LoadCalls) = 0)
             \/ (Len(Printed("Can read track")) = 1 /\ Len(LoadCalls) = 1)

\* C3: a readable mono input is duplicated into two identical channels, the engine
\* gets exactly 2 channels, and the run goes on to separation instead of failing.
C3_Claim ==
    (sr # 0 /\ Len(InputWave.shape) = 1) =>
        /\ pc # "Failed"
        /\ \A k \in 1..Len(EngineCalls) :
              /\ EngineCalls[k].arg.shape[1] = 2
              /\ EngineCalls[k].arg.data[1] = EngineCalls[k].arg.data[2]

\* C4: with stereo_narrowing = 100 the run is rejected before it starts: no file is
\* loaded, the engine is never called, stereo_widering is never called with 100.
C4_Claim ==
    args.stereo_narrowing = 100 =>
        /\ sr = 0
        /\ Len(EngineCalls) = 0
        /\ \A k \in 1..Len(WidenCalls) : WidenCalls[k].arg[2] # 100

\* C6: for an input of L samples the engine receives L + 5 * sr samples, the first
\* L the (possibly narrowed) signal and the last 5 * sr zero, and every stem written
\* has exactly L samples.
C6_PaddingRoundTrip ==
    /\ Len(EngineCalls) <= 1
    /\ Len(EngineCalls) = 1 =>
          LET x   == EngineCalls[1].arg
              L   == InputWave.shape[2]
              sig == IF Len(NarrowCalls) > 0
                       THEN stereo_narrowing(InputWave, args.stereo_narrowing)
                       ELSE InputWave
          IN  /\ Len(InputWave.shape) = 2
              /\ x.shape = <<InputWave.shape[1], L + silence_duration * sr>>
              /\ \A c \in 1..x.shape[1] : \A i \in 1..x.shape[2] :
                    x.data[c][i] = IF i <= L THEN sig.data[c][i] ELSE RInt(0)
              /\ \A k \in 1..Len(written) :
                    written[k].data.shape = <<L, InputWave.shape[1]>>
    /\ Len(written) > 0 => Len(EngineCalls) = 1

\* a narrowed two-sample stereo input whose stems were all written
C6_Witness ==
    /\ pc = "Done"
    /\ Len(written) = 2
    /\ Len(NarrowCalls) = 1
    /\ InputWave.shape = <<2, 2>>
    /\ EngineCalls[1].arg.shape = <<2, 2 + silence_duration * sr>>
    /\ written[2].data.shape = <<2, 2>>

\* the name without its extension: what precedes the last "."
StripExt(name) ==
    LET S == {i \in 1..Len(name) : name[i] = "."}
    IN  IF S = {} THEN name
        ELSE SubSeq(name, 1, (CHOOSE i \in S : \A j \in S : j <= i) - 1)

\* C7: every file is written to {store_dir}/{base name without extension}_{stem}.wav,
\* whatever the length of the extension.
C7_Claim ==
    \A k \in 1..Len(written) :
        written[k].path =
            args.store_dir \o <<"/">> \o StripExt(basename(args.input_file)) \o <<"_">>
                \o Instruments(config)[k] \o <<".", "w", "a", "v">>

\* stems that went through lines 86-88
StemsPostProcessed ==
    IF pc \in {"Writing", "Raised"} THEN instr_i
    ELSE IF pc \in {"PostProcessing", "Done"} THEN instr_i - 1
    ELSE 0

\* the k-th stem as an engine returned it, cut to n samples
TruncatedStem(k, n) ==
    {SliceCols(Demix(config, EngineCalls[1].arg, m)[Instruments(config)[k]], n) :
        m \in EngineModels}

\* C9: stereo_widering is applied to a stem iff stereo_narrowing was applied to the
\* input (the parameter is not 0 and the loaded waveform has exactly 2 channels), with
\* the same value, to every stem, after the stem was cut to the original length;
\* otherwise every stem is written as the engine returned it, cut to that length.
C9_WidenIffNarrowed ==
    LET v        == args.stereo_narrowing
        narrowed == Len(NarrowCalls) > 0
    IN  /\ Len(NarrowCalls) <= 1
        /\ narrowed => NarrowCalls[1].arg[2] = v
        /\ StemsPostProcessed > 0 =>
              (narrowed <=> (v # 0 /\ Len(InputWave.shape) = 2 /\ InputWave.shape[1] = 2))
        /\ IF narrowed
             THEN /\ Len(WidenCalls) = StemsPostProcessed
                  /\ \A k \in 1..Len(WidenCalls) :
                        /\ WidenCalls[k].arg[2] = v
                        /\ WidenCalls[k].arg[1] \in TruncatedStem(k, InputWave.shape[2])
                  /\ \A k \in 1..Len(written) :
                        written[k].data = Transpose(stereo_widering(WidenCalls[k].arg[1], v))
             ELSE /\ Len(WidenCalls) = 0
                  /\ \A k \in 1..Len(written) :
                        written[k].data \in
                            {Transpose(t) : t \in TruncatedStem(k, InputWave.shape[2])}

\* both stems of a narrowed stereo input were widened with the value of the run
C9_Witness ==
    /\ pc = "Done"
    /\ args.stereo_narrowing = 30
    /\ Len(NarrowCalls) = 1
    /\ Len(WidenCalls) = 2
    /\ Len(written) = 2
    /\ WidenCalls[2].arg[1].shape = <<2, 2>>

\* C10: the input file is checked for at most twice; a file present at the first
\* check means no wait; an absent one means one wait and exactly one re-check; present
\* at the re-check the run goes on to preparation; absent at both it reports the
\* failure and ends without loading, separating or writing.
C10_ExistenceChecks ==
    LET checks == IsfileCalls
    IN  /\ Len(checks) <= 2
        /\ Len(SleepCalls) <= 1
        /\ (Len(checks) >= 1 /\ checks[1].arg) =>
              (Len(checks) = 1 /\ Len(SleepCalls) = 0 /\ pc # "Validating")
        /\ Len(SleepCalls) = 1 => (Len(checks) >= 1 /\ ~checks[1].arg)
        /\ Len(checks) = 2 =>
              /\ ~checks[1].arg
              /\ calls[3].fn = "time.sleep"
              /\ calls[4].fn = "os.path.isfile"
        /\ (Len(checks) = 2 /\ checks[2].arg) => (pc = "Preparing" \/ Len(LoadCalls) = 1)
        /\ (Len(checks) = 2 /\ ~checks[2].arg) =>
              /\ pc = "Failed"
              /\ Len(calls) = 4
              /\ Len(LoadCalls) = 0
              /\ Len(EngineCalls) = 0
              /\ written = <<>>
              /\ Len(Printed("Input file doesn't exist!")) = 1
        /\ Len(LoadCalls) > 0 => (Len(checks) >= 1 /\ checks[Len(checks)].arg)

\* the file was absent at both checks and the run has ended
C10_Witness ==
    /\ pc = "Failed"
    /\ Len(IsfileCalls) = 2
    /\ ~IsfileCalls[1].arg
    /\ ~IsfileCalls[2].arg
    /\ Len(SleepCalls) = 1
    /\ written = <<>>

----------------------------------------------------------------------------
(* run_folder: C1, C8 *)

WrittenAt(path) == {k \in 1..Len(written) : written[k].path = path}

\* the files the loop has left behind: a failed load is logged and nothing is
\* written for it, every other file has all its stem files
C1_Isolated ==
    LET n == Len(all_mixtures_path)
    IN  /\ \A i \in 1..n :
              i < path_i =>
                  LET path == all_mixtures_path[i]
                      logged == \E k \in 1..Len(printed) :
                                    /\ printed[k].text = "Can read track"
                                    /\ printed[k].arg = path
                  IN  IF LoadRaises(disk, path)
                        THEN /\ logged
                             /\ \A s \in {Vocals, Other, Instrumental} :
                                   WrittenAt(OutPath(args.store_dir, path, s)) = {}
                        ELSE /\ ~logged
                             /\ \A j \in 1..Len(Instruments(config)) :
                                   WrittenAt(OutPath(args.store_dir, path,
                                                     Instruments(config)[j])) # {}
        /\ pc = "FolderDone" =>
              /\ path_i = n + 1
              /\ printed[Len(printed)].text = "Elapsed time"

\* C1: every file whose load fails is logged and skipped, every other file of the
\* listing gets its stem files, and the loop always reaches the elapsed-time report.
C1_FaultIsolation == []C1_Isolated /\ <>(pc = "FolderDone")

\* a batch of a corrupt file followed by a good one, finished
C1_Witness ==
    /\ pc = "FolderDone"
    /\ Len(all_mixtures_path) = 2
    /\ LoadRaises(disk, all_mixtures_path[1])
    /\ ~LoadRaises(disk, all_mixtures_path[2])
    /\ Len(Printed("Can read track")) = 1
    /\ Len(written) >= 1

\* C8: for each loaded file an instrumental file is written iff 'vocals' is in the
\* active instrument set and extract_instrumental is set; it is the mixture minus the
\* separated vocals sample for sample, has the mixture's shape, and is written after
\* the file's stem files.
C8_Instrumental ==
    \A i \in 1..Len(all_mixtures_path) :
        i < path_i =>
            LET path   == all_mixtures_path[i]
                K      == WrittenAt(OutPath(args.store_dir, path, Instrumental))
                active == IF config.target_instrument # None
                            THEN {config.target_instrument}
                            ELSE {config.instruments[j] : j \in 1..Len(config.instruments)}
                want   == /\ ~LoadRaises(disk, path)
                          /\ Vocals \in active
                          /\ args.extract_instrumental
            IN  /\ (K # {}) <=> want
                /\ want =>
                      LET k == CHOOSE x \in K : TRUE
                          v == CHOOSE x \in WrittenAt(OutPath(args.store_dir, path, Vocals)) : TRUE
                          M == MonoToStereo(Transpose(Load(disk, path)))
                      IN  /\ Cardinality(K) = 1
                          /\ written[k].data.shape = M.shape
                          /\ \A r \in 1..M.shape[1] : \A c \in 1..M.shape[2] :
                                written[k].data.data[r][c] =
                                    RSub(M.data[r][c], written[v].data.data[r][c])
                          /\ \A s \in active :
                                \A x \in WrittenAt(OutPath(args.store_dir, path, s)) : x < k

\* the instrumental of a mono file, written after its two stems
C8_Witness ==
    /\ pc = "FolderDone"
    /\ Len(all_mixtures_path) = 1
    /\ ~LoadRaises(disk, all_mixtures_path[1])
    /\ Len(Load(disk, all_mixtures_path[1]).shape) = 1
    /\ Len(written) = 3
    /\ written[3].path = OutPath(args.store_dir, all_mixtures_path[1], Instrumental)
    /\ written[3].data.shape = <<1, 2>>
====
